---- MODULE Spec2Model ----
(***************************************************************************)
(* A model of minesweeper-game.c: the minefield (generation, flood-fill    *)
(* open, win/loss evaluation), the move parser reading bytes from standard *)
(* input, and the main loop that ties them together.                       *)
(***************************************************************************)
EXTENDS Integers, Sequences, FiniteSets, TLC

(***************************************************************************)
(* Bounds of the model.                                                    *)
(***************************************************************************)
MaxMines == 2
MaxMoves == 2
MaxGrid == 4
MaxLen == 5
MaxDigits == 11

(***************************************************************************)
(* Program constants.                                                      *)
(***************************************************************************)
Field_Cell_Status_HIDDEN == 0
Field_Cell_Status_OPENED == 1
Field_Cell_Status_FLAGGED == 2
Player_Move_Action_FLAG == 0
Player_Move_Action_OPEN == 1

\* mines_near is a 4-bit bit-field: it holds values modulo MinesNearMod.
MinesNearMod == 16

\* The range of int (32 bits), and the half-word used to compute its wrap-around.
INT_MAX == 2147483647
INT_MIN == -INT_MAX - 1
HalfWord == 65536

\* getchar()'s end-of-file value and the bytes the parser tests for.
EOF == -1
ChHash == 35
ChQuestion == 63
ChX == 120
ChSemicolon == 59
ChZero == 48
ChNine == 57
\* The 'y' of the move format the file's comments document.
ChY == 121

\* Process exit codes.
ExitSuccess == 0
ExitUsage == 1
ExitNoMarker == 1
ExitNoTerminator == 2
\* The status of a process killed by SIGABRT (an overflow trap), as a shell reports it.
ExitAbort == 128 + 6
\* The values errno may hold when getchar() reports the end of input: 0, or EIO.
ErrnoValues == {0, 5}


VARIABLES
    pc,           \* position of main: start, generate, loop, read, validate, dispatch, won, lost, exited
    field,        \* struct Field: width, height and the cell array (0-based, row-major)
    mines,        \* main's mines: the mine count asked for
    mines_left,   \* Field_generate's parameter mines: the mines still to place
    is_mines_set, \* whether -m was given
    move,         \* the struct Player_Move of the current loop iteration
    exit_code,    \* the process exit status, -1 while the process runs
    message,      \* the result message printed on stdout: "none", "won" or "lost"
    reads,        \* number of Player_process calls made so far
    typed,        \* the bytes Player_process consumed in the current loop iteration
    unread,       \* bytes of standard input known to follow and not yet read
    before,       \* the cell array as the current loop iteration first saw it
    seed,         \* main's seed, as the values random() returns after srandom(seed); <<>> if not tracked
    rng,          \* state of the generator: how many values of the seed's stream random() returned
    twin          \* an earlier run of the program with the same arguments and input, for comparison

vars == <<pc, field, mines, mines_left, is_mines_set, move, exit_code, message, reads, typed, unread, before,
          seed, rng, twin>>

(***************************************************************************)
(* The minefield.                                                          *)
(***************************************************************************)
Cells(f) == 0 .. (f.width * f.height - 1)

\* field->field[x + y * field->width]
Index(f, x, y) == x + y * f.width

InGrid(f, x, y) == ~(x < 0 \/ y < 0 \/ x >= f.width \/ y >= f.height)

\* memset(field_buffer, 0, sizeof(field_buffer))
ZeroCell == [status |-> Field_Cell_Status_HIDDEN, is_mine |-> 0, mines_near |-> 0]

\* The offsets (i, j) the two nested loops of Field_generate and Field_open
\* walk through, j outermost, both from -1 to 1: the k-th pair, k in 0..8.
OffsetI(k) == (k % 3) - 1
OffsetJ(k) == (k \div 3) - 1
LastOffset == 8

\* neighbor->mines_near++ on a 4-bit field
IncNear(c) == [c EXCEPT !.mines_near = (c.mines_near + 1) % MinesNearMod]

\* IncrementAround with the offset (0, 0) left out: a mine does not count itself.
RECURSIVE IncrementAround_SkipSelf(_, _, _, _, _)
IncrementAround_SkipSelf(f, cells, x, y, k) ==
    IF k > LastOffset THEN cells
    ELSE LET xr == x + OffsetI(k)
             yr == y + OffsetJ(k)
         IN  IF ~InGrid(f, xr, yr) \/ (OffsetI(k) = 0 /\ OffsetJ(k) = 0)
             THEN IncrementAround_SkipSelf(f, cells, x, y, k + 1)
             ELSE IncrementAround_SkipSelf(f,
                      [cells EXCEPT ![Index(f, xr, yr)] = IncNear(@)],
                      x, y, k + 1)

\* The adjacency loop of Field_generate around (x, y), from offset k on.
RECURSIVE IncrementAround(_, _, _, _, _)
IncrementAround(f, cells, x, y, k) ==
    IF k > LastOffset THEN cells
    ELSE LET xr == x + OffsetI(k)
             yr == y + OffsetJ(k)
         IN  IF ~InGrid(f, xr, yr)
             THEN IncrementAround(f, cells, x, y, k + 1)
             ELSE IncrementAround(f,
                      [cells EXCEPT ![Index(f, xr, yr)] = IncNear(@)],
                      x, y, k + 1)

\* One iteration of the while loop of Field_generate with the draw (x, y):
\* the new cell array, and whether a mine was placed.
PlaceMine(f, x, y) ==
    LET cur == f.field[Index(f, x, y)]
    IN  IF cur.is_mine = 1
        THEN f.field
        ELSE IncrementAround(f, [f.field EXCEPT ![Index(f, x, y)].is_mine = 1], x, y, 0)

\* Field_open(field, x, y) on the cell array `cells`: the cell array it leaves.
\* OpenNeighbors is its double loop over the offsets, from offset k on.
RECURSIVE Field_open(_, _, _, _), OpenNeighbors(_, _, _, _, _)

\* OpenNeighbors with both loops ending at i < 1, j < 1: the offsets with
\* i = 1 or j = 1 are never visited.
RECURSIVE OpenNeighbors_ShortLoops(_, _, _, _, _)
OpenNeighbors_ShortLoops(f, cells, x, y, k) ==
    IF k > LastOffset THEN cells
    ELSE LET nx == x + OffsetI(k)
             ny == y + OffsetJ(k)
         IN  IF OffsetI(k) < 1 /\ OffsetJ(k) < 1
                /\ nx >= 0 /\ ny >= 0 /\ nx < f.width /\ ny < f.height
             THEN OpenNeighbors_ShortLoops(f, Field_open(f, cells, nx, ny), x, y, k + 1)
             ELSE OpenNeighbors_ShortLoops(f, cells, x, y, k + 1)

\* Field_open without the loops over the neighbours: the cell itself is
\* opened and nothing else.
Field_open_NoFlood(f, cells, x, y) ==
    IF x >= f.width \/ y >= f.height THEN cells
    ELSE IF cells[Index(f, x, y)].status = Field_Cell_Status_OPENED THEN cells
    ELSE [cells EXCEPT ![Index(f, x, y)].status = Field_Cell_Status_OPENED]

\* Field_open returning at once on every cell that is not Hidden: a Flagged
\* cell is left alone.
Field_open_SkipsFlagged(f, cells, x, y) ==
    IF x >= f.width \/ y >= f.height THEN cells
    ELSE IF cells[Index(f, x, y)].status # Field_Cell_Status_HIDDEN THEN cells
    ELSE LET opened == [cells EXCEPT ![Index(f, x, y)].status = Field_Cell_Status_OPENED]
         IN  IF opened[Index(f, x, y)].mines_near # 0 THEN opened
             ELSE OpenNeighbors(f, opened, x, y, 0)

Field_open(f, cells, x, y) ==
    IF x >= f.width \/ y >= f.height THEN cells
    ELSE IF cells[Index(f, x, y)].status = Field_Cell_Status_OPENED THEN cells
    ELSE LET opened == [cells EXCEPT ![Index(f, x, y)].status = Field_Cell_Status_OPENED]
         IN  IF opened[Index(f, x, y)].mines_near # 0 THEN opened
             ELSE OpenNeighbors(f, opened, x, y, 0)

OpenNeighbors(f, cells, x, y, k) ==
    IF k > LastOffset THEN cells
    ELSE LET nx == x + OffsetI(k)
             ny == y + OffsetJ(k)
         IN  IF nx >= 0 /\ ny >= 0 /\ nx < f.width /\ ny < f.height
             THEN OpenNeighbors(f, Field_open(f, cells, nx, ny), x, y, k + 1)
             ELSE OpenNeighbors(f, cells, x, y, k + 1)

\* Field_isWin: the scan from cell i on with the counters closed and mines.
RECURSIVE IsWinScan(_, _, _, _)
IsWinScan(f, i, closed, nmines) ==
    IF ~(i < f.width * f.height)
    THEN (IF closed = nmines THEN 1 ELSE 0)
    ELSE LET cell == f.field[i]
         IN  IF cell.is_mine = 1 /\ cell.status = Field_Cell_Status_OPENED
             THEN -1
             ELSE IsWinScan(f, i + 1,
                      IF cell.status # Field_Cell_Status_OPENED THEN closed + 1 ELSE closed,
                      IF cell.is_mine = 1 THEN nmines + 1 ELSE nmines)

\* Field_isWin with the closed == mines test made before the opened-mine test.
Field_isWin_CountFirst(f) ==
    LET closed == Cardinality({i \in Cells(f) : f.field[i].status # Field_Cell_Status_OPENED})
        nmines == Cardinality({i \in Cells(f) : f.field[i].is_mine = 1})
    IN  IF closed = nmines THEN 1
        ELSE IF \E i \in Cells(f) :
                    f.field[i].is_mine = 1 /\ f.field[i].status = Field_Cell_Status_OPENED
        THEN -1
        ELSE 0

\* Field_isWin without the test for an Opened mine: it never returns -1.
Field_isWin_NeverLost(f) ==
    LET closed == Cardinality({i \in Cells(f) : f.field[i].status # Field_Cell_Status_OPENED})
        nmines == Cardinality({i \in Cells(f) : f.field[i].is_mine = 1})
    IN  IF closed = nmines THEN 1 ELSE 0

Field_isWin(f) == IsWinScan(f, 0, 0, 0)

(***************************************************************************)
(* The move parser.  Standard input is a finite sequence of bytes followed *)
(* by end-of-file; the i-th getchar() of a call returns its i-th byte.     *)
(***************************************************************************)
GetChar(s, i) == IF i <= Len(s) THEN s[i] ELSE EOF

IsDigit(ch) == ch >= ChZero /\ ch <= ChNine

\* v * 10 + d in int arithmetic: the value when it fits, else the value a
\* wrapping build computes (modulo 2^32), with ub recording the overflow.
MulAddFits(v, d) ==
    LET q == INT_MAX \div 10
    IN  \/ (v < q /\ v >= -q)
        \/ (v = q /\ d <= INT_MAX - q * 10)
        \/ (v = -q - 1 /\ d >= 2)

MulAddWrap(v, d) ==
    LET hi == v \div HalfWord
        lo == v % HalfWord
        t  == lo * 10 + d
        h  == (hi * 10 + (t \div HalfWord)) % HalfWord
        hs == IF h >= HalfWord \div 2 THEN h - HalfWord ELSE h
    IN  hs * HalfWord + (t % HalfWord)

\* x = x * 10 + (ch - '0')
Accumulate(acc, ch) ==
    [v |-> MulAddWrap(acc.v, ch - ChZero),
     ub |-> acc.ub \/ ~MulAddFits(acc.v, ch - ChZero)]

\* x -= 1
Decrement(acc) ==
    IF acc.v = INT_MIN THEN [v |-> INT_MAX, ub |-> TRUE]
    ELSE [v |-> acc.v - 1, ub |-> acc.ub]

\* while ((ch = getchar()) != EOF && ch != '#' && ch != '?'): the index of
\* the getchar() that ends the loop.
RECURSIVE ScanMarker(_, _)
ScanMarker(s, i) ==
    LET ch == GetChar(s, i)
    IN  IF ch # EOF /\ ch # ChHash /\ ch # ChQuestion
        THEN ScanMarker(s, i + 1)
        ELSE i

\* while ((ch = getchar()) != EOF && ch != stop) { if (isdigit(ch)) ... }:
\* the index of the getchar() that ends the loop, and the accumulated value.
RECURSIVE ScanNumber(_, _, _, _)
ScanNumber(s, i, stop, acc) ==
    LET ch == GetChar(s, i)
    IN  IF ch # EOF /\ ch # stop
        THEN ScanNumber(s, i + 1, stop, IF IsDigit(ch) THEN Accumulate(acc, ch) ELSE acc)
        ELSE [i |-> i, acc |-> acc]

Min(a, b) == IF a < b THEN a ELSE b

\* Player_process without the ch == EOF test after the third loop: a move is
\* returned although the input ended before ';'.
Player_process_NoEofCheck(s, e) ==
    LET m == ScanMarker(s, 1)
    IN  IF GetChar(s, m) = EOF
        THEN [exit |-> IF e # 0 THEN e ELSE ExitNoMarker, x |-> 0, y |-> 0,
              action |-> Player_Move_Action_FLAG, n |-> Len(s), ub |-> FALSE]
        ELSE LET action == IF GetChar(s, m) = ChHash THEN Player_Move_Action_OPEN
                                                   ELSE Player_Move_Action_FLAG
                 sx == ScanNumber(s, m + 1, ChX, [v |-> 0, ub |-> FALSE])
                 x  == Decrement(sx.acc)
                 sy == ScanNumber(s, sx.i + 1, ChSemicolon, [v |-> 0, ub |-> x.ub])
                 y  == Decrement(sy.acc)
             IN  [exit |-> -1, x |-> x.v, y |-> y.v, action |-> action,
                  n |-> Min(sy.i, Len(s)), ub |-> y.ub]

\* Player_process on the input s with errno = e when a read fails: exit is
\* the exit status (-1: the call returns), n the number of bytes consumed.
Player_process(s, e) ==
    LET m == ScanMarker(s, 1)
    IN  IF GetChar(s, m) = EOF
        THEN [exit |-> IF e # 0 THEN e ELSE ExitNoMarker, x |-> 0, y |-> 0,
              action |-> Player_Move_Action_FLAG, n |-> Len(s), ub |-> FALSE]
        ELSE LET action == IF GetChar(s, m) = ChHash THEN Player_Move_Action_OPEN
                                                   ELSE Player_Move_Action_FLAG
                 sx == ScanNumber(s, m + 1, ChX, [v |-> 0, ub |-> FALSE])
                 x  == Decrement(sx.acc)
                 sy == ScanNumber(s, sx.i + 1, ChSemicolon, [v |-> 0, ub |-> x.ub])
                 y  == Decrement(sy.acc)
             IN  [exit |-> IF GetChar(s, sy.i) = EOF
                           THEN (IF e # 0 THEN e ELSE ExitNoTerminator)
                           ELSE -1,
                  x |-> x.v, y |-> y.v, action |-> action,
                  n |-> Min(sy.i, Len(s)), ub |-> y.ub]

(***************************************************************************)
(* The inputs the model draws from.                                        *)
(***************************************************************************)
\* One-digit numerals 0 .. n + 1 for a dimension n: a coordinate that is
\* invalid (0), every valid one, and one that is too large.
Numerals(n) == {<<ChZero + k>> : k \in 0 .. n + 1}

Markers == {ChHash, ChQuestion}

\* Moves in the grammar the parser accepts: marker, digits, 'x', digits, ';'.
CompleteMoves(f) ==
    {<<m>> \o a \o <<ChX>> \o b \o <<ChSemicolon>> :
        m \in Markers, a \in Numerals(f.width), b \in Numerals(f.height)}

\* Input that ends before a move is complete: before any marker, after the
\* marker, and after the 'x'.
TruncatedMoves ==
    {<<>>, <<ChY>>}
    \cup {<<m>> \o a : m \in Markers, a \in {<<>>, <<ChZero + 1>>}}
    \cup {<<m, ChZero + 1, ChX>> \o b : m \in Markers, b \in {<<>>, <<ChZero + 1>>}}

GameInputs(f) == CompleteMoves(f) \cup TruncatedMoves

(***************************************************************************)
(* Initial state: main's locals after option parsing.                      *)
(***************************************************************************)
NoMove == [x |-> 0, y |-> 0, action |-> Player_Move_Action_FLAG]

\* No earlier run to compare with.
NoTwin == [run |-> 1]

\* The board sizes of the model (arguments width height).
Boards == {<<1, 1>>, <<2, 1>>, <<2, 2>>, <<3, 2>>}

\* The mine counts of the model (argument -m): up to MaxMines, a mine in
\* every cell, and one more than that.
MineCounts(f) == (0 .. MaxMines) \cup {f.width * f.height, f.width * f.height + 1}

Init ==
    /\ pc = "start"
    /\ \E b \in Boards : field = [width |-> b[1], height |-> b[2], field |-> <<>>]
    /\ is_mines_set \in BOOLEAN
    /\ mines \in IF is_mines_set THEN MineCounts(field) ELSE {0}
    /\ mines_left = 0
    /\ move = NoMove
    /\ exit_code = -1
    /\ message = "none"
    /\ reads = 0
    /\ typed = <<>>
    /\ unread = <<>>
    /\ before = <<>>
    /\ seed = <<>>
    /\ rng = 0
    /\ twin = NoTwin

\* Startup with mines >= width*height for the check: a mine in every cell is
\* refused too.
Startup_RejectsFull ==
    /\ pc = "start"
    /\ LET m == IF ~is_mines_set THEN (field.width * field.height) \div 10 ELSE mines
       IN  IF is_mines_set /\ mines >= field.width * field.height
           THEN /\ pc' = "exited"
                /\ exit_code' = ExitUsage
                /\ UNCHANGED <<field, mines, mines_left, before, rng>>
           ELSE /\ pc' = "generate"
                /\ mines' = m
                /\ mines_left' = m
                /\ field' = [field EXCEPT !.field = [i \in Cells(field) |-> ZeroCell]]
                /\ before' = [i \in Cells(field) |-> ZeroCell]
                /\ rng' = 0
                /\ UNCHANGED exit_code
    /\ UNCHANGED <<is_mines_set, move, message, reads, typed, unread>>
    /\ UNCHANGED <<seed, twin>>

\* main, lines 411-428: the default mine count, the mines > width*height check,
\* srandom(seed), the zeroed cell buffer and the call of Field_generate.
Startup ==
    /\ pc = "start"
    /\ LET m == IF ~is_mines_set THEN (field.width * field.height) \div 10 ELSE mines
       IN  IF is_mines_set /\ mines > field.width * field.height
           THEN /\ pc' = "exited"
                /\ exit_code' = ExitUsage
                /\ UNCHANGED <<field, mines, mines_left, before, rng>>
           ELSE /\ pc' = "generate"
                /\ mines' = m
                /\ mines_left' = m
                /\ field' = [field EXCEPT !.field = [i \in Cells(field) |-> ZeroCell]]
                /\ before' = [i \in Cells(field) |-> ZeroCell]
                /\ rng' = 0
                /\ UNCHANGED exit_code
    /\ UNCHANGED <<is_mines_set, move, message, reads, typed, unread>>
    /\ UNCHANGED <<seed, twin>>

\* GenStep with --mines reached on every draw, also one that hits a mine.
GenStep_DecrementOnHit ==
    /\ pc = "generate"
    /\ mines_left > 0
    /\ \E x \in 0 .. field.width - 1, y \in 0 .. field.height - 1 :
           field' = [field EXCEPT !.field = PlaceMine(field, x, y)]
    /\ mines_left' = mines_left - 1
    /\ before' = field'.field
    /\ UNCHANGED <<pc, mines, is_mines_set, move, exit_code, message, reads, typed, unread>>
    /\ UNCHANGED <<seed, rng, twin>>

\* Field_generate: one iteration of while (mines > 0) with a draw of random().
GenStep ==
    /\ pc = "generate"
    /\ mines_left > 0
    /\ \E x \in 0 .. field.width - 1, y \in 0 .. field.height - 1 :
           /\ field' = [field EXCEPT !.field = PlaceMine(field, x, y)]
           /\ mines_left' = IF field.field[Index(field, x, y)].is_mine = 1
                            THEN mines_left ELSE mines_left - 1
    /\ before' = field'.field
    /\ UNCHANGED <<pc, mines, is_mines_set, move, exit_code, message, reads, typed, unread>>
    /\ UNCHANGED <<seed, rng, twin>>

\* Field_generate returns once mines = 0; main enters its loop.
GenDone ==
    /\ pc = "generate"
    /\ mines_left = 0
    /\ pc' = "loop"
    /\ UNCHANGED <<field, mines, mines_left, is_mines_set, move, exit_code, message, reads,
                   typed, unread, before>>
    /\ UNCHANGED <<seed, rng, twin>>

\* CheckStatus without the break on a loss: main goes on to read a move.
CheckStatus_NoBreakOnLoss ==
    /\ pc = "loop"
    /\ LET status == Field_isWin(field)
       IN  IF status > 0
           THEN pc' = "won" /\ message' = "won" /\ exit_code' = ExitSuccess
           ELSE IF status < 0
           THEN pc' = "read" /\ message' = "lost" /\ UNCHANGED exit_code
           ELSE pc' = "read" /\ UNCHANGED <<message, exit_code>>
    /\ before' = field.field
    /\ move' = NoMove
    /\ typed' = <<>>
    /\ UNCHANGED <<field, mines, mines_left, is_mines_set, reads, unread>>
    /\ UNCHANGED <<seed, rng, twin>>

\* main, lines 432-441: print the field, evaluate Field_isWin, and stop on a
\* win or a loss (break, then return 0).
CheckStatus ==
    /\ pc = "loop"
    /\ LET status == Field_isWin(field)
       IN  IF status > 0
           THEN pc' = "won" /\ message' = "won" /\ exit_code' = ExitSuccess
           ELSE IF status < 0
           THEN pc' = "lost" /\ message' = "lost" /\ exit_code' = ExitSuccess
           ELSE pc' = "read" /\ UNCHANGED <<message, exit_code>>
    /\ before' = field.field
    /\ move' = NoMove
    /\ typed' = <<>>
    /\ UNCHANGED <<field, mines, mines_left, is_mines_set, reads, unread>>
    /\ UNCHANGED <<seed, rng, twin>>

\* main, line 444: Player_process() on standard input holding the bytes s and
\* then end-of-file, with errno = e if a read fails.  After a signed overflow
\* the build either goes on with the wrapped value or traps.
Read(s, e) ==
    /\ pc = "read"
    /\ LET r == Player_process(s, e)
       IN  /\ typed' = SubSeq(s, 1, r.n)
           /\ unread' = SubSeq(s, r.n + 1, Len(s))
           /\ \/ /\ r.exit = -1
                 /\ pc' = "validate"
                 /\ move' = [x |-> r.x, y |-> r.y, action |-> r.action]
                 /\ UNCHANGED exit_code
              \/ /\ r.exit # -1
                 /\ pc' = "exited"
                 /\ exit_code' = r.exit
                 /\ UNCHANGED move
              \/ /\ r.ub
                 /\ pc' = "exited"
                 /\ exit_code' = ExitAbort
                 /\ UNCHANGED move
    /\ reads' = reads + 1
    /\ UNCHANGED <<field, mines, mines_left, is_mines_set, message, before>>
    /\ UNCHANGED <<seed, rng, twin>>

\* The player types the bytes s (and then, if the move is not complete, ends
\* the input) while main waits in Player_process.
ReadMove ==
    /\ reads < MaxMoves
    /\ \E s \in GameInputs(field), e \in ErrnoValues : Read(unread \o s, e)

\* Validate with move.x > field.width for the third test.
Validate_OffByOne ==
    /\ pc = "validate"
    /\ IF move.x < 0 THEN pc' = "loop"
       ELSE IF move.y < 0 THEN pc' = "loop"
       ELSE IF move.x > field.width THEN pc' = "loop"
       ELSE IF move.y >= field.height THEN pc' = "loop"
       ELSE pc' = "dispatch"
    /\ UNCHANGED <<field, mines, mines_left, is_mines_set, move, exit_code, message, reads,
                   typed, unread, before>>
    /\ UNCHANGED <<seed, rng, twin>>

\* main, lines 447-459: the coordinate checks; a move that fails one is
\* dropped with a warning and the loop starts over.
Validate ==
    /\ pc = "validate"
    /\ IF move.x < 0 THEN pc' = "loop"
       ELSE IF move.y < 0 THEN pc' = "loop"
       ELSE IF move.x >= field.width THEN pc' = "loop"
       ELSE IF move.y >= field.height THEN pc' = "loop"
       ELSE pc' = "dispatch"
    /\ UNCHANGED <<field, mines, mines_left, is_mines_set, move, exit_code, message, reads,
                   typed, unread, before>>
    /\ UNCHANGED <<seed, rng, twin>>

\* ToggleFlag with a plain else for the second test: an Opened cell becomes
\* Hidden.
ToggleFlag_HidesOpened(cells, i) ==
    IF cells[i].status = Field_Cell_Status_HIDDEN
    THEN [cells EXCEPT ![i].status = Field_Cell_Status_FLAGGED]
    ELSE [cells EXCEPT ![i].status = Field_Cell_Status_HIDDEN]

\* ToggleFlag without the test for HIDDEN: an Opened cell is flagged too.
ToggleFlag_FlagsOpened(cells, i) ==
    IF cells[i].status = Field_Cell_Status_FLAGGED
    THEN [cells EXCEPT ![i].status = Field_Cell_Status_HIDDEN]
    ELSE [cells EXCEPT ![i].status = Field_Cell_Status_FLAGGED]

\* The FLAG case of the switch on the cell array `cells`.
ToggleFlag(cells, i) ==
    IF cells[i].status = Field_Cell_Status_HIDDEN
    THEN [cells EXCEPT ![i].status = Field_Cell_Status_FLAGGED]
    ELSE IF cells[i].status = Field_Cell_Status_FLAGGED
    THEN [cells EXCEPT ![i].status = Field_Cell_Status_HIDDEN]
    ELSE cells

\* main, lines 462-476: the switch on move.action.
DispatchOpen ==
    /\ pc = "dispatch"
    /\ move.action = Player_Move_Action_OPEN
    /\ field' = [field EXCEPT !.field = Field_open(field, field.field, move.x, move.y)]
    /\ pc' = "loop"
    /\ UNCHANGED <<mines, mines_left, is_mines_set, move, exit_code, message, reads, typed,
                   unread, before>>
    /\ UNCHANGED <<seed, rng, twin>>

DispatchFlag ==
    /\ pc = "dispatch"
    /\ move.action = Player_Move_Action_FLAG
    /\ field' = [field EXCEPT !.field = ToggleFlag(field.field, Index(field, move.x, move.y))]
    /\ pc' = "loop"
    /\ UNCHANGED <<mines, mines_left, is_mines_set, move, exit_code, message, reads, typed,
                   unread, before>>
    /\ UNCHANGED <<seed, rng, twin>>

Next ==
    \/ Startup
    \/ GenStep
    \/ GenDone
    \/ CheckStatus
    \/ ReadMove
    \/ Validate
    \/ DispatchOpen
    \/ DispatchFlag

Spec == Init /\ [][Next]_vars

(***************************************************************************)
(* The whole program on a given standard input: a ParseWidth x ParseHeight *)
(* board (arguments -m 4 5 5) whose four mines were drawn at ParseDraws,   *)
(* and an input fixed at the start, which main reads move after move.      *)
(***************************************************************************)
ParseWidth == 5
ParseHeight == 5
ParseDraws == <<<<1, 1>>, <<3, 1>>, <<1, 3>>, <<3, 3>>>>

\* Field_generate with random() yielding the draws from the n-th on.
RECURSIVE GenerateAt(_, _, _)
GenerateAt(f, draws, n) ==
    IF n > Len(draws) THEN f
    ELSE GenerateAt([f EXCEPT !.field = PlaceMine(f, draws[n][1], draws[n][2])], draws, n + 1)

ParseField ==
    LET f == [width |-> ParseWidth, height |-> ParseHeight, field |-> <<>>]
    IN  GenerateAt([f EXCEPT !.field = [i \in Cells(f) |-> ZeroCell]], ParseDraws, 1)

RECURSIVE SeqsUpTo(_, _)
SeqsUpTo(S, n) ==
    IF n = 0 THEN {<<>>}
    ELSE LET shorter == SeqsUpTo(S, n - 1)
         IN  shorter \cup {Append(s, b) : s \in {t \in shorter : Len(t) = n - 1}, b \in S}

ParseBytes == {ChHash, ChQuestion, ChX, ChSemicolon, ChY, ChZero + 1}

\* The moves the comments of the source give as examples, '#x4;y1' and
\* '?x2;y5', and every move '#xN;yN', '?xN;yN' in that format.
DocumentedMoves ==
    {<<m, ChX, ChZero + a, ChSemicolon, ChY, ChZero + b>> : m \in Markers, a \in 1 .. 9, b \in 1 .. 9}

\* '#4x2;', '?1x1;', '#4x1;' and '#4abcx1;'.
ExampleMoves ==
    {<<ChHash, ChZero + 4, ChX, ChZero + 2, ChSemicolon>>,
     <<ChQuestion, ChZero + 1, ChX, ChZero + 1, ChSemicolon>>,
     <<ChHash, ChZero + 4, ChX, ChZero + 1, ChSemicolon>>,
     <<ChHash, ChZero + 4, 97, 98, 99, ChX, ChZero + 1, ChSemicolon>>}

\* Moves whose x coordinate is a run of up to MaxDigits equal digits.
LongMoves ==
    {<<m>> \o [i \in 1 .. n |-> d] \o <<ChX, ChZero + 1, ChSemicolon>> :
        m \in Markers, n \in 1 .. MaxDigits, d \in {ChZero, ChZero + 1, ChNine}}

ParseInputs == SeqsUpTo(ParseBytes, MaxLen) \cup DocumentedMoves \cup ExampleMoves \cup LongMoves

InitParse ==
    /\ pc = "loop"
    /\ field = ParseField
    /\ is_mines_set = TRUE
    /\ mines = Len(ParseDraws)
    /\ mines_left = 0
    /\ move = NoMove
    /\ exit_code = -1
    /\ message = "none"
    /\ reads = 0
    /\ typed = <<>>
    /\ unread \in ParseInputs
    /\ before = ParseField.field
    /\ seed = <<>>
    /\ rng = 0
    /\ twin = NoTwin

\* main waits in Player_process and standard input holds the bytes unread.
ReadStdin == \E e \in ErrnoValues : Read(unread, e)

NextParse ==
    \/ CheckStatus
    \/ ReadStdin
    \/ Validate
    \/ DispatchOpen
    \/ DispatchFlag

SpecParse == InitParse /\ [][NextParse]_vars

(***************************************************************************)
(* Field_isWin on every grid of at most MaxGrid cells: any status and any  *)
(* is_mine in each cell.                                                   *)
(***************************************************************************)
AnyCell ==
    [status : {Field_Cell_Status_HIDDEN, Field_Cell_Status_OPENED, Field_Cell_Status_FLAGGED},
     is_mine : {0, 1},
     mines_near : {0}]

InitIsWin ==
    /\ pc = "loop"
    /\ \E w \in 1 .. MaxGrid, h \in 1 .. MaxGrid :
           /\ w * h <= MaxGrid
           /\ \E cells \in [0 .. w * h - 1 -> AnyCell] :
                  /\ field = [width |-> w, height |-> h, field |-> cells]
                  /\ before = cells
    /\ is_mines_set = FALSE
    /\ mines = 0
    /\ mines_left = 0
    /\ move = NoMove
    /\ exit_code = -1
    /\ message = "none"
    /\ reads = 0
    /\ typed = <<>>
    /\ unread = <<>>
    /\ seed = <<>>
    /\ rng = 0
    /\ twin = NoTwin

NextIsWin == CheckStatus

SpecIsWin == InitIsWin /\ [][NextIsWin]_vars

(***************************************************************************)
(* Vocabulary of the claims.                                               *)
(***************************************************************************)
\* Field_generate has returned: the cell array exists and main is past it.
Generated == pc \notin {"start", "generate"} /\ DOMAIN field.field = Cells(field)

CellX(f, i) == i % f.width
CellY(f, i) == i \div f.width

\* Cells i and j are distinct and 8-adjacent.
Adjacent(f, i, j) ==
    /\ i # j
    /\ CellX(f, i) - CellX(f, j) \in -1 .. 1
    /\ CellY(f, i) - CellY(f, j) \in -1 .. 1

Neighbours(f, i) == {j \in Cells(f) : Adjacent(f, i, j)}

MineCells(f) == {i \in Cells(f) : f.field[i].is_mine = 1}

OpenedCells(f, cells) == {i \in Cells(f) : cells[i].status = Field_Cell_Status_OPENED}

InRange(f, mv) == mv.x >= 0 /\ mv.y >= 0 /\ mv.x < f.width /\ mv.y < f.height

\* main has just finished the loop iteration of a move (applied or rejected).
MoveDone == pc = "loop" /\ typed # <<>>

(***************************************************************************)
(* C1: after Field_generate returns, mines_near of EVERY cell, mine cells  *)
(* included, is the number of its in-grid neighbours (itself excluded)     *)
(* that are mines.                                                         *)
(***************************************************************************)
C1_AdjacencyOfEveryCell ==
    Generated =>
        \A i \in Cells(field) :
            field.field[i].mines_near = Cardinality(Neighbours(field, i) \cap MineCells(field))

(***************************************************************************)
(* C2: Field_generate on a zeroed grid with mineCount <= width*height      *)
(* leaves exactly mineCount mine cells; while it runs, the mines placed    *)
(* and the mines still to place add up to mineCount (a draw on a mine      *)
(* places nothing and does not decrement).                                 *)
(***************************************************************************)
C2_ExactlyMineCount ==
    /\ pc = "generate" => Cardinality(MineCells(field)) + mines_left = mines
    /\ Generated => Cardinality(MineCells(field)) = mines

C2_Witness ==
    /\ Generated
    /\ pc = "loop"
    /\ mines = 2
    /\ field.width * field.height > 2

(***************************************************************************)
(* C3: for every grid, Field_isWin returns -1 iff some mine cell is        *)
(* Opened, +1 iff no mine is Opened and every non-Opened cell is a mine,   *)
(* and 0 otherwise; main stops as lost, stops as won, or goes on to read   *)
(* accordingly.                                                            *)
(***************************************************************************)
MineOpened(f) == MineCells(f) \cap OpenedCells(f, f.field) # {}

AllClosedAreMines(f) == (Cells(f) \ OpenedCells(f, f.field)) \subseteq MineCells(f)

C3_IsWinOutcome ==
    LET r == Field_isWin(field)
    IN  /\ r \in {-1, 0, 1}
        /\ r = -1 <=> MineOpened(field)
        /\ r = 1 <=> (~MineOpened(field) /\ AllClosedAreMines(field))
        /\ pc = "lost" => r = -1
        /\ pc = "won" => r = 1
        /\ pc = "read" => r = 0

\* Lost although the closed cells are as many as the mines.
C3_Witness ==
    /\ pc = "lost"
    /\ MineOpened(field)
    /\ Cardinality(Cells(field) \ OpenedCells(field, field.field)) = Cardinality(MineCells(field))

(***************************************************************************)
(* C4: in a game, an Open move on a non-Opened cell whose mines_near is 0  *)
(* leaves Opened exactly the cells Opened before, the cells reachable from *)
(* it through 8-adjacent cells of mines_near 0, and the in-grid neighbours *)
(* of those; every other cell keeps its status, and no is_mine or          *)
(* mines_near changes.                                                     *)
(***************************************************************************)
RECURSIVE ZeroRegion(_, _)
ZeroRegion(f, S) ==
    LET T == S \cup {j \in Cells(f) :
                        /\ f.field[j].mines_near = 0
                        /\ \E i \in S : Adjacent(f, i, j)}
    IN  IF T = S THEN S ELSE ZeroRegion(f, T)

RegionBorder(f, S) == {j \in Cells(f) : \E i \in S : Adjacent(f, i, j)}

\* The last move was an Open of a cell that was not Opened and has mines_near 0.
OpenedZeroCell ==
    /\ MoveDone
    /\ move.action = Player_Move_Action_OPEN
    /\ InRange(field, move)
    /\ before[Index(field, move.x, move.y)].status # Field_Cell_Status_OPENED
    /\ before[Index(field, move.x, move.y)].mines_near = 0

C4_FloodFillRegion ==
    OpenedZeroCell =>
        LET region == ZeroRegion(field, {Index(field, move.x, move.y)})
            opened == OpenedCells(field, before) \cup region \cup RegionBorder(field, region)
        IN  \A i \in Cells(field) :
                field.field[i] =
                    IF i \in opened
                    THEN [before[i] EXCEPT !.status = Field_Cell_Status_OPENED]
                    ELSE before[i]

\* A region of several cells with a border, and a cell outside both that
\* stays closed although it is no mine.
C4_Witness ==
    /\ OpenedZeroCell
    /\ LET region == ZeroRegion(field, {Index(field, move.x, move.y)})
       IN  /\ Cardinality(region) >= 2
           /\ RegionBorder(field, region) \ region # {}
           /\ \E i \in Cells(field) :
                  /\ field.field[i].is_mine = 0
                  /\ field.field[i].status # Field_Cell_Status_OPENED

(***************************************************************************)
(* The move a sequence of typed bytes denotes, read off the bytes without  *)
(* the parser: the first marker, the first 'x' after it, the first ';'     *)
(* after that, and the digits in between.                                  *)
(***************************************************************************)
\* The least index i >= from with t[i] in S, or 0.
FirstIndex(t, from, S) ==
    LET I == {i \in from .. Len(t) : t[i] \in S}
    IN  IF I = {} THEN 0 ELSE CHOOSE i \in I : \A j \in I : i <= j

MarkerAt(t) == FirstIndex(t, 1, Markers)
XAt(t) == IF MarkerAt(t) = 0 THEN 0 ELSE FirstIndex(t, MarkerAt(t) + 1, {ChX})
SemicolonAt(t) == IF XAt(t) = 0 THEN 0 ELSE FirstIndex(t, XAt(t) + 1, {ChSemicolon})

\* t holds a marker, later an 'x', later a ';'.
HasMove(t) == SemicolonAt(t) # 0

\* The digit bytes of t strictly between the indices a and b.
DigitsBetween(t, a, b) == SelectSeq(SubSeq(t, a + 1, b - 1), IsDigit)

RECURSIVE StripZeros(_)
StripZeros(ds) == IF ds # <<>> /\ Head(ds) = ChZero THEN StripZeros(Tail(ds)) ELSE ds

\* The decimal digits of n >= 0, none for 0.
RECURSIVE DecimalDigits(_)
DecimalDigits(n) == IF n = 0 THEN <<>> ELSE Append(DecimalDigits(n \div 10), ChZero + (n % 10))

\* The coordinate c is the decimal value of the digits ds, minus 1.
Denotes(ds, c) == c >= -1 /\ c < INT_MAX /\ StripZeros(ds) = DecimalDigits(c + 1)

Decoded(t, mv) ==
    /\ HasMove(t)
    /\ SemicolonAt(t) = Len(t)
    /\ mv.action = IF t[MarkerAt(t)] = ChHash THEN Player_Move_Action_OPEN
                                              ELSE Player_Move_Action_FLAG
    /\ Denotes(DigitsBetween(t, MarkerAt(t), XAt(t)), mv.x)
    /\ Denotes(DigitsBetween(t, XAt(t), SemicolonAt(t)), mv.y)

(***************************************************************************)
(* C5: on input that holds a marker, later an 'x' and later a ';',         *)
(* Player_process returns the move whose action is the first marker's and  *)
(* whose x and y are the decimal values, minus 1, of the digit bytes       *)
(* between marker and 'x' and between 'x' and ';', every other byte being  *)
(* skipped; it consumes the input up to and including that ';'.  Hence a   *)
(* call that ends the process instead met no such move.                    *)
(***************************************************************************)
C5_ParserDecodes ==
    /\ pc = "validate" => Decoded(typed, move)
    /\ (pc = "exited" /\ reads > 0) => ~HasMove(typed)

\* What does hold of the parser: the same, for moves whose two digit runs
\* are short enough for their values to fit an int.
FitsInt(t) ==
    /\ Len(DigitsBetween(t, MarkerAt(t), XAt(t))) < 10
    /\ Len(DigitsBetween(t, XAt(t), SemicolonAt(t))) < 10

ParserDecodesWithinInt ==
    /\ (pc = "validate" /\ FitsInt(typed)) => Decoded(typed, move)
    /\ (pc = "validate" /\ ~FitsInt(typed)) => (HasMove(typed) /\ SemicolonAt(typed) = Len(typed))
    /\ (pc = "exited" /\ reads > 0) => ~(HasMove(typed) /\ FitsInt(typed))

(***************************************************************************)
(* C6: a move typed in the format the comments of the source document,     *)
(* '#xNN;yNN' or '?xNN;yNN', is decoded as the action of its marker on the *)
(* cell whose 1-based coordinates are the two numbers, and that cell is    *)
(* opened, or its flag toggled.                                            *)
(***************************************************************************)
C6_DocumentedFormat ==
    LET input == typed \o unread
    IN  (reads = 1 /\ pc \in {"validate", "dispatch", "loop"} /\ input \in DocumentedMoves) =>
            LET cx == input[3] - ChZero - 1
                cy == input[6] - ChZero - 1
                open == input[1] = ChHash
            IN  /\ move.x = cx
                /\ move.y = cy
                /\ move.action = IF open THEN Player_Move_Action_OPEN ELSE Player_Move_Action_FLAG
                /\ (pc = "loop" /\ cx < field.width /\ cy < field.height) =>
                       field.field[Index(field, cx, cy)].status =
                           IF open THEN Field_Cell_Status_OPENED ELSE Field_Cell_Status_FLAGGED

(***************************************************************************)
(* C7: main drops a parsed move with x < 0, y < 0, x >= width or           *)
(* y >= height, whatever its action: no cell changes, the game stays in    *)
(* progress, and the loop starts its next iteration; a move within the     *)
(* grid is never dropped.                                                  *)
(***************************************************************************)
C7_RejectOutOfRange ==
    [][pc = "validate" =>
          IF InRange(field, move)
          THEN pc' = "dispatch"
          ELSE /\ pc' = "loop"
               /\ field' = field
               /\ exit_code' = -1
               /\ message' = "none"
               /\ Field_isWin(field') = 0]_vars

\* A second move, an Open with x too large, dropped on a grid that the
\* first move changed.
C7_Witness ==
    /\ MoveDone
    /\ reads = 2
    /\ move.action = Player_Move_Action_OPEN
    /\ move.x >= field.width
    /\ OpenedCells(field, field.field) # {}
    /\ field.field = before

(***************************************************************************)
(* C8: a valid Flag move on a cell changes that cell's status only, Hidden *)
(* to Flagged, Flagged to Hidden, Opened staying Opened, and nothing else; *)
(* a second Flag move on the same cell restores the grid as it was.        *)
(***************************************************************************)
Toggled(status) ==
    IF status = Field_Cell_Status_HIDDEN THEN Field_Cell_Status_FLAGGED
    ELSE IF status = Field_Cell_Status_FLAGGED THEN Field_Cell_Status_HIDDEN
    ELSE Field_Cell_Status_OPENED

FlagDone == MoveDone /\ move.action = Player_Move_Action_FLAG /\ InRange(field, move)

C8_FlagToggles ==
    FlagDone =>
        LET c == Index(field, move.x, move.y)
        IN  /\ field.field = [before EXCEPT ![c].status = Toggled(@)]
            /\ ToggleFlag(field.field, c) = before

\* The second of two Flag moves on one cell: the flag set by the first is
\* gone and the grid is the generated one again.
C8_Witness ==
    /\ FlagDone
    /\ reads = 2
    /\ before[Index(field, move.x, move.y)].status = Field_Cell_Status_FLAGGED
    /\ \A i \in Cells(field) : field.field[i].status = Field_Cell_Status_HIDDEN

(***************************************************************************)
(* C9: Won and Lost are terminal: once Field_isWin returns +1 or -1, main  *)
(* stops with exit status 0 without reading input or touching the grid,    *)
(* and nothing happens afterwards; while it returns 0, main goes on to     *)
(* request a move.                                                         *)
(***************************************************************************)
C9_TerminalStates ==
    [][/\ pc \in {"won", "lost"} => vars' = vars
       /\ pc = "loop" =>
              IF Field_isWin(field) = 0
              THEN pc' = "read" /\ exit_code' = -1 /\ message' = "none"
              ELSE /\ pc' = IF Field_isWin(field) > 0 THEN "won" ELSE "lost"
                   /\ message' = pc'
                   /\ exit_code' = ExitSuccess
                   /\ UNCHANGED <<field, reads, unread>>]_vars

\* A game lost by its second move.
C9_Witness ==
    /\ pc = "lost"
    /\ reads = 2
    /\ exit_code = ExitSuccess
    /\ message = "lost"

(***************************************************************************)
(* C10: if the input ends while a move is being read (before a marker,     *)
(* between the marker and 'x', or between 'x' and ';'), the process ends   *)
(* with a non-zero exit status, the grid is as the last completed move     *)
(* left it, no result message is printed, and nothing happens afterwards.  *)
(***************************************************************************)
C10_EndOfInput ==
    [][/\ (pc = "read" /\ ~HasMove(typed')) =>
              /\ pc' = "exited"
              /\ exit_code' \notin {-1, ExitSuccess}
              /\ field' = field
              /\ field.field = before
              /\ message' = "none"
       /\ pc = "exited" => vars' = vars]_vars

\* The input ends between 'x' and ';' of the second move, after a first
\* move that opened cells.
C10_Witness ==
    /\ pc = "exited"
    /\ reads = 2
    /\ XAt(typed) # 0
    /\ ~HasMove(typed)
    /\ exit_code = ExitNoTerminator
    /\ OpenedCells(field, field.field) # {}
(***************************************************************************)
(* C11: on a board generated with 0 mines the game is in progress as long  *)
(* as no valid Open move was made, and the first valid Open move, at any   *)
(* coordinate of the grid, leaves every cell Opened, so that the next      *)
(* Field_isWin returns +1 and the game ends as won.                        *)
(***************************************************************************)
ValidOpenDone == MoveDone /\ move.action = Player_Move_Action_OPEN /\ InRange(field, move)

AllOpened(f) == OpenedCells(f, f.field) = Cells(f)

C11_ZeroMinesOpenWins ==
    (Generated /\ mines = 0) =>
        /\ (pc = "loop" /\ ~ValidOpenDone) =>
               (OpenedCells(field, field.field) = {} /\ Field_isWin(field) = 0)
        /\ pc \in {"read", "validate", "dispatch"} => OpenedCells(field, field.field) = {}
        /\ ValidOpenDone => (AllOpened(field) /\ Field_isWin(field) = 1)
        /\ pc = "won" => AllOpened(field)
        /\ pc # "lost"

\* The second move, an Open in the far corner of a board of several cells,
\* one of which the first move flagged, has opened them all.
C11_Witness ==
    /\ ValidOpenDone
    /\ mines = 0
    /\ reads = 2
    /\ Cardinality(Cells(field)) > 2
    /\ move.x = field.width - 1
    /\ move.y = field.height - 1
    /\ \E i \in Cells(field) : before[i].status = Field_Cell_Status_FLAGGED
    /\ AllOpened(field)
(***************************************************************************)
(* The minefield on its own: Field_generate on a zeroed grid, then calls   *)
(* of the two operations on a cell, Field_open and the flag toggle, at any *)
(* coordinates of the grid and in any state, with Field_isWin evaluated    *)
(* after any of them.  Here reads counts the calls made.                   *)
(***************************************************************************)
FieldCall ==
    /\ pc = "loop"
    /\ reads < MaxMoves
    /\ \E x \in 0 .. field.width - 1, y \in 0 .. field.height - 1,
          a \in {Player_Move_Action_FLAG, Player_Move_Action_OPEN} :
           move' = [x |-> x, y |-> y, action |-> a]
    /\ pc' = "dispatch"
    /\ before' = field.field
    /\ reads' = reads + 1
    /\ UNCHANGED <<field, mines, mines_left, is_mines_set, exit_code, message, typed, unread,
                   seed, rng, twin>>

NextField ==
    \/ Startup
    \/ GenStep
    \/ GenDone
    \/ FieldCall
    \/ DispatchOpen
    \/ DispatchFlag
    \/ CheckStatus

SpecField == Init /\ [][NextField]_vars

\* The last call, of Field_open, has returned.
OpenCalled == pc = "loop" /\ reads > 0 /\ move.action = Player_Move_Action_OPEN

(***************************************************************************)
(* C12: after Field_generate with a mine count of width*height (the 2 x 2  *)
(* board with 4 mines) every cell is a mine, and Field_open at any         *)
(* coordinate followed by Field_isWin yields -1, lost.                     *)
(***************************************************************************)
FullBoard == Generated /\ mines = field.width * field.height

C12_AllMinesOpenLoses ==
    FullBoard =>
        /\ MineCells(field) = Cells(field)
        /\ \A x \in 0 .. field.width - 1, y \in 0 .. field.height - 1 :
               Field_isWin([field EXCEPT !.field = Field_open(field, field.field, x, y)]) = -1
        /\ OpenCalled => Field_isWin(field) = -1
        /\ pc = "lost" <=> (pc \notin {"loop", "dispatch"} /\ OpenedCells(field, field.field) # {})

\* The 2 x 2 board with 4 mines, lost by Field_open on the cell (1, 1) after a
\* flag was set.
C12_Witness ==
    /\ pc = "lost"
    /\ field.width = 2
    /\ field.height = 2
    /\ mines = 4
    /\ reads = 2
    /\ OpenedCells(field, field.field) = {Index(field, 1, 1)}
    /\ \E i \in Cells(field) : field.field[i].status = Field_Cell_Status_FLAGGED
(***************************************************************************)
(* The program run twice with the same arguments (-s seed, -m mines, width *)
(* height) and the same standard input.  srandom(seed) fixes the values    *)
(* random() returns; the model takes the first SeedLen of them as the      *)
(* seed, and Field_generate stops short when it would need more.  The      *)
(* first run is interrupted at any point, its state is kept in twin, and   *)
(* the second run starts from main's first line.                           *)
(***************************************************************************)
SeedLen == 6
SeedValues == {0, 1}
Seeds == [1 .. SeedLen -> SeedValues]
SeedBoards == {<<2, 2>>, <<3, 2>>}

\* The n-th value (from 0) random() returns after srandom(s).
Random(s, n) == s[n + 1]

\* '#1x1;', '?2x1;#2x2;', '#2x2;?1x' and the empty input.
SeedInputs ==
    {<<>>,
     <<ChHash, ChZero + 1, ChX, ChZero + 1, ChSemicolon>>,
     <<ChQuestion, ChZero + 2, ChX, ChZero + 1, ChSemicolon,
       ChHash, ChZero + 2, ChX, ChZero + 2, ChSemicolon>>,
     <<ChHash, ChZero + 2, ChX, ChZero + 2, ChSemicolon, ChQuestion, ChZero + 1, ChX>>}

InitSeed ==
    /\ pc = "start"
    /\ \E b \in SeedBoards : field = [width |-> b[1], height |-> b[2], field |-> <<>>]
    /\ is_mines_set \in BOOLEAN
    /\ mines \in IF is_mines_set THEN 0 .. MaxMines ELSE {0}
    /\ mines_left = 0
    /\ move = NoMove
    /\ exit_code = -1
    /\ message = "none"
    /\ reads = 0
    /\ typed = <<>>
    /\ unread \in SeedInputs
    /\ before = <<>>
    /\ seed \in Seeds
    /\ rng = 0
    /\ twin = [run |-> 1, mines |-> mines, stdin |-> unread]

\* GenStepSeeded with srandom(time(NULL)): the draws have nothing to do with
\* the seed.
GenStepUnseeded ==
    /\ pc = "generate"
    /\ mines_left > 0
    /\ rng + 2 <= Len(seed)
    /\ \E x \in 0 .. field.width - 1, y \in 0 .. field.height - 1 :
           /\ field' = [field EXCEPT !.field = PlaceMine(field, x, y)]
           /\ mines_left' = IF field.field[Index(field, x, y)].is_mine = 1
                            THEN mines_left ELSE mines_left - 1
    /\ rng' = rng + 2
    /\ before' = field'.field
    /\ UNCHANGED <<pc, mines, is_mines_set, move, exit_code, message, reads, typed, unread,
                   seed, twin>>

\* Field_generate: one iteration of while (mines > 0), its two calls of
\* random() returning the next two values of the seed's stream.
GenStepSeeded ==
    /\ pc = "generate"
    /\ mines_left > 0
    /\ rng + 2 <= Len(seed)
    /\ LET x == Random(seed, rng) % field.width
           y == Random(seed, rng + 1) % field.height
       IN  /\ field' = [field EXCEPT !.field = PlaceMine(field, x, y)]
           /\ mines_left' = IF field.field[Index(field, x, y)].is_mine = 1
                            THEN mines_left ELSE mines_left - 1
    /\ rng' = rng + 2
    /\ before' = field'.field
    /\ UNCHANGED <<pc, mines, is_mines_set, move, exit_code, message, reads, typed, unread,
                   seed, twin>>

\* The first run is left where it is and the program is started again.
Rerun ==
    /\ twin.run = 1
    /\ pc # "start"
    /\ twin' = [run |-> 2, pc |-> pc, field |-> field, mines |-> mines,
                mines_left |-> mines_left, move |-> move, message |-> message,
                reads |-> reads, unread |-> unread, rng |-> rng]
    /\ pc' = "start"
    /\ field' = [field EXCEPT !.field = <<>>]
    /\ mines' = twin.mines
    /\ mines_left' = 0
    /\ move' = NoMove
    /\ exit_code' = -1
    /\ message' = "none"
    /\ reads' = 0
    /\ typed' = <<>>
    /\ unread' = twin.stdin
    /\ before' = <<>>
    /\ rng' = 0
    /\ UNCHANGED <<is_mines_set, seed>>

NextSeed ==
    \/ Startup
    \/ GenStepSeeded
    \/ GenDone
    \/ CheckStatus
    \/ ReadStdin
    \/ Validate
    \/ DispatchOpen
    \/ DispatchFlag
    \/ Rerun

SpecSeed == InitSeed /\ [][NextSeed]_vars

(***************************************************************************)
(* C13: two runs with the same seed, width, height, mine count and input   *)
(* bytes pass through the same states: whenever the second run is where    *)
(* the first was left (the same iteration of Field_generate's loop, or the *)
(* same place of the same iteration of main's loop), its grid, is_mine and *)
(* mines_near of every cell included, and the rest of its state are those  *)
(* of the first.  In particular both leave Field_generate with the same    *)
(* grid after the same number of draws.                                    *)
(***************************************************************************)
SamePoint ==
    /\ twin.run = 2
    /\ pc = twin.pc
    /\ reads = twin.reads
    /\ pc = "generate" => rng = twin.rng

C14_OpenedForeverMinesFixed ==
    [][Generated =>
          /\ field'.width = field.width
          /\ field'.height = field.height
          /\ \A i \in Cells(field) :
                 /\ field.field[i].status = Field_Cell_Status_OPENED =>
                        field'.field[i].status = Field_Cell_Status_OPENED
                 /\ field'.field[i].is_mine = field.field[i].is_mine
                 /\ field'.field[i].mines_near = field.field[i].mines_near]_vars

\* A second move, a Flag on a cell that the first move opened, has left the
\* cell Opened, next to cells that are still closed.
C14_Witness ==
    /\ FlagDone
    /\ reads = 2
    /\ before[Index(field, move.x, move.y)].status = Field_Cell_Status_OPENED
    /\ field.field[Index(field, move.x, move.y)].status = Field_Cell_Status_OPENED
    /\ ~AllOpened(field)
(***************************************************************************)
(* C15: Field_open treats a Flagged cell as it treats a Hidden one: the    *)
(* cell an Open move names ends Opened whether it was Flagged or not, the  *)
(* cells the move opens are those it would open with every flag removed    *)
(* first, and no cell's status changes to anything but Opened.             *)
(***************************************************************************)
Unflagged(cells) ==
    [i \in DOMAIN cells |->
        IF cells[i].status = Field_Cell_Status_FLAGGED
        THEN [cells[i] EXCEPT !.status = Field_Cell_Status_HIDDEN]
        ELSE cells[i]]

C15_FlaggedOpenedLikeHidden ==
    ValidOpenDone =>
        /\ field.field[Index(field, move.x, move.y)].status = Field_Cell_Status_OPENED
        /\ OpenedCells(field, field.field) =
               OpenedCells(field, Field_open(field, Unflagged(before), move.x, move.y))
        /\ \A i \in Cells(field) :
               field.field[i].status \in {before[i].status, Field_Cell_Status_OPENED}

\* The flood fill of an Open move has opened a Flagged cell other than the
\* one the move names.
C15_Witness ==
    /\ ValidOpenDone
    /\ \E i \in Cells(field) :
           /\ i # Index(field, move.x, move.y)
           /\ before[i].status = Field_Cell_Status_FLAGGED
           /\ field.field[i].status = Field_Cell_Status_OPENED
(***************************************************************************)
(* A flood fill with a worklist of coordinates in place of the recursion:  *)
(* a coordinate taken from the worklist is dropped if it is outside the    *)
(* grid or its cell is Opened; otherwise the cell is opened and, if its    *)
(* mines_near is 0, its 8 neighbours are added, in the order `order` of    *)
(* the offsets, at the end of the worklist (a queue) or at its front (a    *)
(* stack).                                                                 *)
(***************************************************************************)
NeighbourCoords(x, y, order) ==
    [n \in 1 .. Len(order) |-> <<x + OffsetI(order[n]), y + OffsetJ(order[n])>>]

RECURSIVE WorklistOpen(_, _, _, _, _)
WorklistOpen(f, cells, work, order, lifo) ==
    IF work = <<>> THEN cells
    ELSE LET x == Head(work)[1]
             y == Head(work)[2]
             rest == Tail(work)
         IN  IF ~InGrid(f, x, y) THEN WorklistOpen(f, cells, rest, order, lifo)
             ELSE IF cells[Index(f, x, y)].status = Field_Cell_Status_OPENED
             THEN WorklistOpen(f, cells, rest, order, lifo)
             ELSE LET opened == [cells EXCEPT ![Index(f, x, y)].status = Field_Cell_Status_OPENED]
                      more == NeighbourCoords(x, y, order)
                  IN  IF opened[Index(f, x, y)].mines_near # 0
                      THEN WorklistOpen(f, opened, rest, order, lifo)
                      ELSE WorklistOpen(f, opened,
                               IF lifo THEN more \o rest ELSE rest \o more, order, lifo)

\* Orders of the 8 offsets other than (0, 0): row-major as in the code, its
\* reverse, the four sides before the four corners, and a clockwise round.
NeighbourOrders ==
    {<<0, 1, 2, 3, 5, 6, 7, 8>>,
     <<8, 7, 6, 5, 3, 2, 1, 0>>,
     <<1, 3, 5, 7, 0, 2, 6, 8>>,
     <<0, 1, 2, 5, 8, 7, 6, 3>>}

(***************************************************************************)
(* C16: the grid an Open move leaves does not depend on the order of the   *)
(* visits: the recursion of Field_open and the worklist flood fill, as a   *)
(* queue or as a stack and with any of the neighbour orders, started on    *)
(* the same grid of a game at the same coordinate, end with the same       *)
(* status in every cell.                                                   *)
(***************************************************************************)
C16_OrderIndependent ==
    ValidOpenDone =>
        \A order \in NeighbourOrders, lifo \in BOOLEAN :
            field.field = WorklistOpen(field, before, <<<<move.x, move.y>>>>, order, lifo)

\* An Open move whose flood fill went through several cells of mines_near 0
\* and stopped at cells that stay closed.
C16_Witness ==
    /\ ValidOpenDone
    /\ Cardinality({i \in OpenedCells(field, field.field) \ OpenedCells(field, before) :
                        field.field[i].mines_near = 0}) >= 2
    /\ \E i \in OpenedCells(field, field.field) : field.field[i].mines_near # 0
    /\ ~AllOpened(field)
(***************************************************************************)
(* Field_open with a record of its work: st.cells is the cell array,       *)
(* st.log the cells it set to Opened, in the order of the assignments of   *)
(* line 171, and st.calls the number of invocations of Field_open.         *)
(***************************************************************************)
RECURSIVE Field_open_Log(_, _, _, _), OpenNeighbors_Log(_, _, _, _, _)

\* Field_open_Log without the return on an Opened cell: the cell is set to
\* Opened once more (the recursion is still left out for it).
Field_open_Log_Reopens(f, st, x, y) ==
    LET called == [st EXCEPT !.calls = @ + 1]
    IN  IF x >= f.width \/ y >= f.height THEN called
        ELSE LET opened == [called EXCEPT !.cells[Index(f, x, y)].status = Field_Cell_Status_OPENED,
                                         !.log = Append(@, Index(f, x, y))]
             IN  IF st.cells[Index(f, x, y)].status = Field_Cell_Status_OPENED THEN opened
                 ELSE IF opened.cells[Index(f, x, y)].mines_near # 0 THEN opened
                 ELSE OpenNeighbors_Log(f, opened, x, y, 0)

Field_open_Log(f, st, x, y) ==
    LET called == [st EXCEPT !.calls = @ + 1]
    IN  IF x >= f.width \/ y >= f.height THEN called
        ELSE IF st.cells[Index(f, x, y)].status = Field_Cell_Status_OPENED THEN called
        ELSE LET opened == [called EXCEPT !.cells[Index(f, x, y)].status = Field_Cell_Status_OPENED,
                                         !.log = Append(@, Index(f, x, y))]
             IN  IF opened.cells[Index(f, x, y)].mines_near # 0 THEN opened
                 ELSE OpenNeighbors_Log(f, opened, x, y, 0)

OpenNeighbors_Log(f, st, x, y, k) ==
    IF k > LastOffset THEN st
    ELSE LET nx == x + OffsetI(k)
             ny == y + OffsetJ(k)
         IN  IF nx >= 0 /\ ny >= 0 /\ nx < f.width /\ ny < f.height
             THEN OpenNeighbors_Log(f, Field_open_Log(f, st, nx, ny), x, y, k + 1)
             ELSE OpenNeighbors_Log(f, st, x, y, k + 1)

(***************************************************************************)
(* Field_open called once on any grid of at most MaxGrid cells, every cell *)
(* with any status and mines_near 0 or 1, at any coordinates, those of the *)
(* first column and row beyond the grid included.                          *)
(***************************************************************************)
OpenCell ==
    [status : {Field_Cell_Status_HIDDEN, Field_Cell_Status_OPENED, Field_Cell_Status_FLAGGED},
     is_mine : {0},
     mines_near : {0, 1}]

InitOpen ==
    /\ pc = "dispatch"
    /\ \E w \in 1 .. MaxGrid, h \in 1 .. MaxGrid :
           /\ w * h <= MaxGrid
           /\ \E cells \in [0 .. w * h - 1 -> OpenCell] :
                  /\ field = [width |-> w, height |-> h, field |-> cells]
                  /\ before = cells
           /\ \E x \in 0 .. w, y \in 0 .. h :
                  move = [x |-> x, y |-> y, action |-> Player_Move_Action_OPEN]
    /\ is_mines_set = FALSE
    /\ mines = 0
    /\ mines_left = 0
    /\ exit_code = -1
    /\ message = "none"
    /\ reads = 0
    /\ typed = <<>>
    /\ unread = <<>>
    /\ seed = <<>>
    /\ rng = 0
    /\ twin = NoTwin

NextOpen == DispatchOpen

SpecOpen == InitOpen /\ [][NextOpen]_vars

(***************************************************************************)
(* C17: a call of Field_open returns, on every grid and in every state of  *)
(* it: an invocation either returns at once (coordinates outside the grid, *)
(* or the cell is Opened) or sets one cell that was not Opened to Opened   *)
(* and only then recurses, into at most 9 invocations; so the call sets at *)
(* most width*height cells to Opened, none of them twice and none that was *)
(* Opened before, and makes at most 1 + 9 * width*height invocations.      *)
(***************************************************************************)
OpenLog == Field_open_Log(field, [cells |-> before, log |-> <<>>, calls |-> 0], move.x, move.y)

C17_OpenTerminates ==
    pc = "loop" =>
        LET log == OpenLog.log
        IN  /\ field.field = OpenLog.cells
            /\ Len(log) <= field.width * field.height
            /\ \A m, n \in 1 .. Len(log) : m # n => log[m] # log[n]
            /\ \A n \in 1 .. Len(log) : before[log[n]].status # Field_Cell_Status_OPENED
            /\ OpenedCells(field, field.field) =
                   OpenedCells(field, before) \cup {log[n] : n \in 1 .. Len(log)}
            /\ OpenLog.calls <= 1 + 9 * Len(log)
            /\ (~InRange(field, move)
                    \/ before[Index(field, move.x, move.y)].status = Field_Cell_Status_OPENED) =>
                   (OpenLog.calls = 1 /\ log = <<>> /\ field.field = before)

\* One call has opened every cell of a grid of MaxGrid cells, a Flagged one
\* among them, each once, in more invocations than there are cells.
C17_Witness ==
    /\ pc = "loop"
    /\ Len(OpenLog.log) = MaxGrid
    /\ AllOpened(field)
    /\ OpenLog.calls > MaxGrid
    /\ \E i \in Cells(field) : before[i].status = Field_Cell_Status_FLAGGED
(***************************************************************************)
(* C18: in every state of a game after Field_generate, every Opened cell   *)
(* whose mines_near is 0 has all its neighbours in the grid Opened.        *)
(***************************************************************************)
C18_OpenedZeroSurrounded ==
    Generated =>
        \A i \in OpenedCells(field, field.field) :
            field.field[i].mines_near = 0 =>
                Neighbours(field, i) \subseteq OpenedCells(field, field.field)

\* After two moves an Opened cell of mines_near 0 lies in a grid that also
\* has a Flagged cell.
C18_Witness ==
    /\ MoveDone
    /\ reads = 2
    /\ \E i \in OpenedCells(field, field.field) :
           field.field[i].mines_near = 0 /\ Neighbours(field, i) # {}
    /\ \E i \in Cells(field) : field.field[i].status = Field_Cell_Status_FLAGGED
(***************************************************************************)
(* C19: in every state of a game at most one mine cell is Opened.  An Open *)
(* move on a cell that is no mine opens no mine; an Open move on a mine    *)
(* opens that cell and nothing else, also when the mine has no mine among  *)
(* its neighbours; and once a mine is Opened, Field_isWin returns -1 at    *)
(* the top of the loop, so that no further move is read or applied.        *)
(***************************************************************************)
OpenedMines(f) == MineCells(f) \cap OpenedCells(f, f.field)

C20_FullBoardWonAtOnce ==
    /\ (pc # "start" /\ mines = field.width * field.height) =>
           /\ pc \in {"generate", "loop", "won"}
           /\ reads = 0
           /\ typed = <<>>
           /\ pc = "loop" => Field_isWin(field) = 1
           /\ pc = "won" => (exit_code = ExitSuccess /\ message = "won")
           /\ pc # "won" => (exit_code = -1 /\ message = "none")
    /\ (Generated /\ mines < field.width * field.height /\ reads = 0) =>
           /\ pc \in {"loop", "read"}
           /\ Field_isWin(field) = 0
           /\ exit_code = -1
           /\ message = "none"

\* A board of several cells, a mine in each, won without a move.
C20_Witness ==
    /\ pc = "won"
    /\ mines = field.width * field.height
    /\ MineCells(field) = Cells(field)
    /\ Cardinality(Cells(field)) > MaxMines
    /\ reads = 0
    /\ exit_code = ExitSuccess
====
